---- MODULE Spec2Model ----
(***************************************************************************)
(* pager: a single-page site builder with live reload.                     *)
(*                                                                         *)
(* Spec     the serve command (server.go run): initial build, filesystem   *)
(*          watcher, debounce timer, rebuild callbacks (build.go build),   *)
(*          reload listeners (sseHandler / notifyClients).                 *)
(* SpecReg  the identifier registry of one pass (processState.uniqueID).   *)
(* SpecDoc  the content pipeline (processContent / processNode) run over   *)
(*          bounded documents, rebuild after rebuild.                      *)
(* SpecTOC  buildTOC applied to bounded heading sequences.                 *)
(***************************************************************************)
EXTENDS Integers, Sequences, FiniteSets, TLC

(***************************************************************************)
(* Bounds of the model.                                                    *)
(***************************************************************************)
\* external filesystem changes made while the server runs
MaxChanges == 3
\* reload connections opened during the session
MaxConns == 1
\* clock resolution in milliseconds (one Tick of the model clock)
TickMs == 50

(***************************************************************************)
(* Program constants.                                                      *)
(***************************************************************************)
\* server.go:144  time.AfterFunc(100*time.Millisecond, ...)
DebounceMs == 100

Min(a, b) == IF a < b THEN a ELSE b
Max(a, b) == IF a > b THEN a ELSE b

VARIABLES
  proc,       \* position of run: "init" (initial build), "serving", "exited"
  disk,       \* files of the site directory
  dirs,       \* sub-directories that exist in the site directory
  watched,    \* directories added to the fsnotify watcher (paths)
  events,     \* watcher.Events: events not yet received by the loop
  timer,      \* the loop's `timer` variable: 0 is nil, else the newest timer
  thr,        \* thr[0]: the initial build of run; thr[i]: timer i and its callback
  left,       \* left[i]: milliseconds until timer i expires
  clients,    \* the clients map (set of registered channels)
  slot,       \* slot[c]: number of signals buffered in channel c (capacity 1)
  sse,        \* sse[c]: position of sseHandler for connection c
  changes,    \* number of external filesystem changes so far
  sinceEvt,   \* history: ms since the loop last armed the timer (capped)
  burst,      \* history: number of bursts of non-suppressed events so far
  offered,    \* history: offered[c]: broadcasts made while channel c was in the map
  frames,     \* history: frames[c]: reload frames written on connection c
  reg,        \* SpecReg: the used-set of the registry
  regLog,     \* SpecReg: the calls made so far, <<candidate, result>>
  doc,        \* SpecDoc: the parsed fragment being processed
  pass,       \* SpecDoc: result of the latest processContent pass
  passes,     \* SpecDoc: history of earlier passes
  toc,        \* SpecTOC: input headings and the output of buildTOC
  slugRun     \* SpecSlug: a heading text and the id slugify derives from it

sseHist == <<offered, frames>>
loopVars == <<proc, disk, dirs, watched, events, timer, thr, left, clients,
              slot, sse, changes, sinceEvt, burst, sseHist>>
regVars == <<reg, regLog>>
docVars == <<doc, pass, passes>>
tocVars == <<toc>>
slugVars == <<slugRun>>
vars == <<loopVars, regVars, docVars, tocVars, slugVars>>
\* what the serve loop leaves alone
pureVars == <<regVars, docVars, tocVars, slugVars>>

(***************************************************************************)
(* The site directory.  Paths are sequences of name components relative to *)
(* the directory given to run; <<>> is the directory itself.               *)
(***************************************************************************)
SubDirs == {"sub", ".hid"}
\* the names n for which strings.HasPrefix(n, ".") holds
DotNames == {".hid"}
Root == <<>>

\* filepath.Base
Base(path) == IF path = <<>> THEN "." ELSE path[Len(path)]

Timers == 1 .. MaxChanges
Threads == 0 .. MaxChanges
Conns == 1 .. MaxConns

\* positions inside build (build.go 31-171)
BuildPcs == {"build_read", "build_html", "build_md"}

Event(path, op) == [name |-> path, op |-> op]

\* an event is delivered only for a path whose directory is watched
Emit(path, op) ==
  IF SubSeq(path, 1, Len(path) - 1) \in watched THEN <<Event(path, op)>> ELSE <<>>

\* thr[i].err is the error value of build: "none" until build has returned
\* thr[i].ver is the version of content.html that build has read
\* thr[i].html0 is index.html as it was when build was called
NoThread == [pc |-> "none", err |-> "none", ver |-> 0, html0 |-> 0]

LoopInit ==
  /\ proc = "init"
  /\ disk \in [yaml : {"ok", "bad"}, content : {0, 1}, html : {0}, md : {FALSE}]
  /\ dirs = {}
  /\ watched = {}
  /\ events = <<>>
  /\ timer = 0
  /\ thr = [i \in Threads |-> IF i = 0 THEN [NoThread EXCEPT !.pc = "build_read"]
                                ELSE NoThread]
  /\ left = [i \in Timers |-> 0]
  /\ clients = {}
  /\ slot = [c \in Conns |-> 0]
  /\ sse = [c \in Conns |-> "new"]
  /\ changes = 0
  /\ sinceEvt = DebounceMs
  /\ burst = 0
  /\ offered = [c \in Conns |-> 0]
  /\ frames = [c \in Conns |-> 0]

(***************************************************************************)
(* build (build.go 31-171), executed by thread i: the initial build of run *)
(* (i = 0) or the callback of timer i.                                     *)
(***************************************************************************)
\* server.go 145-149: the callback only logs the outcome of build
logBuildResultFatal(err) == IF err THEN "exited" ELSE proc
logBuildResult(err) == proc

\* build returns err to its caller
Return(i, err) ==
  /\ thr' = [thr EXCEPT ![i] = [pc |-> IF i = 0 THEN "built" ELSE "notify",
                                err |-> IF err THEN "err" ELSE "nil",
                                ver |-> 0, html0 |-> 0]]
  /\ proc' = IF i = 0 THEN proc ELSE logBuildResult(err)

Goto(i, pc) ==
  /\ thr' = [thr EXCEPT ![i].pc = pc]
  /\ UNCHANGED proc

\* build.go 32-81: read and parse pager.yaml, read content.html
BuildRead(i) ==
  /\ thr[i].pc = "build_read"
  /\ UNCHANGED <<disk, events>>
  /\ IF disk.yaml = "ok" /\ disk.content /= 0
     THEN /\ thr' = [thr EXCEPT ![i].pc = "build_html", ![i].ver = disk.content]
          /\ UNCHANGED proc
     ELSE Return(i, TRUE)

\* build.go 129-157: render the template and write index.html
\* r = "template": Parse or Execute fails; "open": WriteFile cannot open the file;
\* "partial": WriteFile truncated the file and then failed; "ok": written
BuildWriteHTML(i) ==
  /\ thr[i].pc = "build_html"
  /\ \E r \in {"template", "open", "partial", "ok"} :
       /\ disk' = [disk EXCEPT !.html = CASE r = "ok" -> thr[i].ver
                                          [] r = "partial" -> -1
                                          [] OTHER -> @]
       /\ events' = events \o (IF r \in {"ok", "partial"}
                               THEN Emit(<<"index.html">>, "write") ELSE <<>>)
       /\ IF r = "ok" THEN Goto(i, "build_md") ELSE Return(i, TRUE)

\* build.go 159-170: convert to markdown and write index.md
\* r = "convert": htmltomd fails (warning only); "write": WriteFile fails
BuildWriteMD(i) ==
  /\ thr[i].pc = "build_md"
  /\ \E r \in {"convert", "write", "ok"} :
       /\ disk' = [disk EXCEPT !.md = IF r = "ok" THEN TRUE ELSE @]
       /\ events' = events \o (IF r = "ok" THEN Emit(<<"index.md">>, "write") ELSE <<>>)
       /\ Return(i, r = "write")

build(i) ==
  /\ proc \in {"init", "serving"}
  /\ \/ BuildRead(i)
     \/ BuildWriteHTML(i)
     \/ BuildWriteMD(i)

(***************************************************************************)
(* run (server.go 100-170)                                                 *)
(***************************************************************************)
\* server.go 112-123: the directories the initial walk adds to the watcher
Walk == {Root} \cup {<<d>> : d \in {x \in dirs : ~(x \in DotNames)}}

\* server.go 101-103
RunInitialBuild ==
  /\ proc = "init"
  /\ build(0)
  /\ UNCHANGED <<dirs, watched, timer, left, clients, slot, sse, changes,
                 sinceEvt, burst, sseHist, pureVars>>

\* server.go 101-125 and 161-169: after the initial build, either return its
\* error or set up the watcher, start the loop goroutine and serve
RunStart ==
  /\ proc = "init"
  /\ thr[0].pc = "built"
  /\ thr' = [thr EXCEPT ![0].pc = "ret"]
  /\ IF thr[0].err = "err"
     THEN proc' = "exited" /\ UNCHANGED watched
     ELSE proc' = "serving" /\ watched' = Walk
  /\ UNCHANGED <<disk, dirs, events, timer, left, clients, slot, sse, changes,
                 sinceEvt, burst, sseHist, pureVars>>

(***************************************************************************)
(* The loop goroutine (server.go 125-159).                                 *)
(***************************************************************************)
IsOutputNever(e) == FALSE
IsOutput(e) == Base(e.name) = "index.html" \/ Base(e.name) = "index.md"

\* server.go 133: events of the generated files are skipped
SuppressedAll(e) == TRUE
Suppressed(e) == IsOutput(e)

\* timer.Stop() (server.go 141-143): an armed timer is cancelled, a timer that
\* has fired or was stopped is left as it is
StopTimerNoop(t) == t
StopTimer(t) ==
  IF timer /= 0 /\ t[timer].pc = "armed" THEN [t EXCEPT ![timer].pc = "stopped"] ELSE t

\* one iteration of the loop on an event received from watcher.Events
HandleEvent ==
  /\ proc = "serving"
  /\ events /= <<>>
  /\ LET e == Head(events) IN
       /\ events' = Tail(events)
       /\ IF Suppressed(e)
          THEN UNCHANGED <<watched, timer, thr, left, sinceEvt, burst>>
          ELSE /\ timer < MaxChanges
               \* server.go 136-140: a created directory is added to the watcher
               /\ watched' = IF e.op = "create" /\ Len(e.name) = 1 /\ e.name[1] \in dirs
                             THEN watched \cup {e.name} ELSE watched
               \* server.go 141-151: stop the old timer, arm a new one
               /\ timer' = timer + 1
               /\ thr' = [StopTimer(thr) EXCEPT ![timer + 1].pc = "armed"]
               /\ left' = [i \in Timers |-> IF i = timer + 1 THEN DebounceMs
                                            ELSE IF i = timer THEN 0 ELSE left[i]]
               /\ sinceEvt' = 0
               /\ burst' = IF sinceEvt < DebounceMs THEN burst ELSE burst + 1
  /\ UNCHANGED <<proc, disk, dirs, clients, slot, sse, changes, sseHist, pureVars>>

\* server.go 144-145: the callback starts with build
CallbackEntryNotify == "notify"
CallbackEntry == "build_read"

\* the runtime runs the function of an expired timer in its own goroutine
TimerFireStopped(i) ==
  /\ proc = "serving"
  /\ thr[i].pc \in {"armed", "stopped"}
  /\ left[i] = 0
  /\ thr' = [thr EXCEPT ![i].pc = CallbackEntry, ![i].html0 = disk.html]
  /\ UNCHANGED <<proc, disk, dirs, watched, events, timer, left, clients, slot,
                 sse, changes, sinceEvt, burst, sseHist, pureVars>>
TimerFire(i) ==
  /\ proc = "serving"
  /\ thr[i].pc = "armed"
  /\ left[i] = 0
  /\ thr' = [thr EXCEPT ![i].pc = CallbackEntry, ![i].html0 = disk.html]
  /\ UNCHANGED <<proc, disk, dirs, watched, events, timer, left, clients, slot,
                 sse, changes, sinceEvt, burst, sseHist, pureVars>>

\* server.go 145-149: the callback runs build
Rebuild(i) ==
  /\ proc = "serving"
  /\ i \in Timers
  /\ build(i)
  /\ UNCHANGED <<dirs, watched, timer, left, clients, slot, sse, changes,
                 sinceEvt, burst, sseHist, pureVars>>

\* notifyClients (server.go 23-32): a non-blocking send to every channel of the map
OfferQueued(s) == [c \in Conns |-> IF c \in clients THEN s[c] + 1 ELSE s[c]]
Offer(s) == [c \in Conns |-> IF c \in clients /\ s[c] = 0 THEN 1 ELSE s[c]]

\* server.go 150: the callback broadcasts after build has returned
notifyClientsStale(i) ==
  /\ proc = "serving"
  /\ thr[i].pc = "notify"
  /\ slot' = [c \in Conns |-> IF sse[c] /= "new" THEN 1 ELSE slot[c]]
  /\ offered' = [c \in Conns |-> IF sse[c] /= "new" THEN Min(MaxChanges, offered[c] + 1)
                                  ELSE offered[c]]
  /\ thr' = [thr EXCEPT ![i].pc = "done"]
  /\ UNCHANGED <<proc, disk, dirs, watched, events, timer, left, clients, sse,
                 changes, sinceEvt, burst, frames, pureVars>>
notifyClients(i) ==
  /\ proc = "serving"
  /\ thr[i].pc = "notify"
  /\ slot' = Offer(slot)
  /\ offered' = [c \in Conns |-> IF c \in clients THEN offered[c] + 1 ELSE offered[c]]
  /\ thr' = [thr EXCEPT ![i].pc = "done"]
  /\ UNCHANGED <<proc, disk, dirs, watched, events, timer, left, clients, sse,
                 changes, sinceEvt, burst, frames, pureVars>>

(***************************************************************************)
(* sseHandler (server.go 34-63), one per reload connection.  The sections  *)
(* under clientsMu are atomic steps.                                       *)
(***************************************************************************)
\* server.go 39-52: make the channel, register it; not a Flusher: return
SseRegister(c) ==
  /\ proc = "serving"
  /\ sse[c] = "new"
  /\ clients' = clients \cup {c}
  /\ \E ok \in BOOLEAN : sse' = [sse EXCEPT ![c] = IF ok THEN "loop" ELSE "defer"]
  /\ UNCHANGED <<proc, disk, dirs, watched, events, timer, thr, left, slot,
                 changes, sinceEvt, burst, sseHist, pureVars>>

\* server.go 56-58: receive the signal and write one reload frame
SseReloadKeep(c) ==
  /\ proc = "serving"
  /\ sse[c] \in {"loop", "cancelled"}
  /\ slot[c] = 1
  /\ frames[c] < MaxChanges
  /\ frames' = [frames EXCEPT ![c] = @ + 1]
  /\ UNCHANGED <<proc, disk, dirs, watched, events, timer, thr, left, clients,
                 slot, sse, changes, sinceEvt, burst, offered, pureVars>>
SseReload(c) ==
  /\ proc = "serving"
  /\ sse[c] \in {"loop", "cancelled"}
  /\ slot[c] = 1
  /\ slot' = [slot EXCEPT ![c] = 0]
  /\ frames' = [frames EXCEPT ![c] = @ + 1]
  /\ UNCHANGED <<proc, disk, dirs, watched, events, timer, thr, left, clients,
                 sse, changes, sinceEvt, burst, offered, pureVars>>

\* the client closes the connection: r.Context() is cancelled
ConnClose(c) ==
  /\ proc = "serving"
  /\ sse[c] = "loop"
  /\ sse' = [sse EXCEPT ![c] = "cancelled"]
  /\ UNCHANGED <<proc, disk, dirs, watched, events, timer, thr, left, clients,
                 slot, changes, sinceEvt, burst, sseHist, pureVars>>

\* server.go 59-60 and 43-47: return, the deferred function removes the channel
SseReturnLeak(c) ==
  /\ proc = "serving"
  /\ sse[c] \in {"cancelled", "defer"}
  /\ sse' = [sse EXCEPT ![c] = "returned"]
  /\ UNCHANGED <<proc, disk, dirs, watched, events, timer, thr, left, clients, slot,
                 changes, sinceEvt, burst, sseHist, pureVars>>
SseReturn(c) ==
  /\ proc = "serving"
  /\ sse[c] \in {"cancelled", "defer"}
  /\ clients' = clients \ {c}
  /\ sse' = [sse EXCEPT ![c] = "returned"]
  \* the channel is unreachable from now on
  /\ slot' = [slot EXCEPT ![c] = 0]
  /\ UNCHANGED <<proc, disk, dirs, watched, events, timer, thr, left,
                 changes, sinceEvt, burst, sseHist, pureVars>>

(***************************************************************************)
(* The environment: the author edits the site, time passes.                *)
(***************************************************************************)
\* a timer that has expired fires before anything else happens at that instant
TimerDue == \E i \in Timers : thr[i].pc = "armed" /\ left[i] = 0

Change(disk2, dirs2, evs) ==
  /\ proc = "serving"
  /\ changes < MaxChanges
  /\ events = <<>>
  /\ ~TimerDue
  /\ changes' = changes + 1
  /\ disk' = disk2
  /\ dirs' = dirs2
  /\ events' = events \o evs
  /\ UNCHANGED <<proc, watched, timer, thr, left, clients, slot, sse, sinceEvt,
                 burst, sseHist, pureVars>>

EditContent ==
  Change([disk EXCEPT !.content = changes + 2], dirs, Emit(<<"content.html">>, "write"))

RemoveContent ==
  /\ disk.content /= 0
  /\ Change([disk EXCEPT !.content = 0], dirs, Emit(<<"content.html">>, "remove"))

EditConfig ==
  Change([disk EXCEPT !.yaml = IF @ = "ok" THEN "bad" ELSE "ok"], dirs,
         Emit(<<"pager.yaml">>, "write"))

\* the author creates a sub-directory of the site directory
Mkdir(d) ==
  /\ d \notin dirs
  /\ Change(disk, dirs \cup {d}, Emit(<<d>>, "create"))

\* the names of the files the author keeps in a sub-directory
SubFiles == {"style.css", "index.html"}

\* the author writes a file inside a sub-directory
EditIn(d, f) ==
  /\ d \in dirs
  /\ Change(disk, dirs, Emit(<<d, f>>, "write"))

Tick ==
  /\ proc = "serving"
  /\ events = <<>>
  /\ ~TimerDue
  /\ \/ \E i \in Timers : thr[i].pc = "armed"
     \/ sinceEvt < DebounceMs
  /\ left' = [i \in Timers |-> IF thr[i].pc = "armed" THEN Max(0, left[i] - TickMs)
                               ELSE left[i]]
  /\ sinceEvt' = Min(DebounceMs, sinceEvt + TickMs)
  /\ UNCHANGED <<proc, disk, dirs, watched, events, timer, thr, clients, slot,
                 sse, changes, burst, sseHist, pureVars>>

LoopNext ==
  \/ RunInitialBuild
  \/ RunStart
  \/ HandleEvent
  \/ \E i \in Timers : TimerFire(i)
  \/ \E i \in Timers : Rebuild(i)
  \/ \E i \in Timers : notifyClients(i)
  \/ \E c \in Conns : SseRegister(c)
  \/ \E c \in Conns : SseReload(c)
  \/ \E c \in Conns : ConnClose(c)
  \/ \E c \in Conns : SseReturn(c)
  \/ EditContent
  \/ RemoveContent
  \/ EditConfig
  \/ Tick

\* the serve loop with no reload connection, the author working in
\* sub-directories as well
WatchNext ==
  \/ RunInitialBuild
  \/ RunStart
  \/ HandleEvent
  \/ \E i \in Timers : TimerFire(i)
  \/ \E i \in Timers : Rebuild(i)
  \/ \E i \in Timers : notifyClients(i)
  \/ EditContent
  \/ \E d \in SubDirs : Mkdir(d)
  \/ \E d \in SubDirs : \E f \in SubFiles : EditIn(d, f)
  \/ Tick

(***************************************************************************)
(* Strings are sequences of one-character strings.                         *)
(***************************************************************************)
UpperCase == <<"A", "B", "C", "D", "E", "F", "G", "H", "I", "J", "K", "L", "M",
               "N", "O", "P", "Q", "R", "S", "T", "U", "V", "W", "X", "Y", "Z">>
LowerCase == <<"a", "b", "c", "d", "e", "f", "g", "h", "i", "j", "k", "l", "m",
               "n", "o", "p", "q", "r", "s", "t", "u", "v", "w", "x", "y", "z">>
DigitChars == <<"0", "1", "2", "3", "4", "5", "6", "7", "8", "9">>
\* runes outside ASCII, written by their code points: a letter of a script
\* without case (category Lo) and an upper case letter for which Unicode
\* defines no lower case form (category Lu, mathematical bold capital A)
CaselessLetter == "U+4E2D"
UnpairedUpper == "U+1D400"
Range(f) == {f[i] : i \in DOMAIN f}

\* unicode.IsLetter, unicode.IsDigit, unicode.IsSpace on the characters used
IsLetterASCII(c) == c \in Range(UpperCase) \cup Range(LowerCase)
IsLetter(c) == c \in Range(UpperCase) \cup Range(LowerCase) \cup {CaselessLetter, UnpairedUpper}
IsDigit(c) == c \in Range(DigitChars)
IsSpace(c) == c \in {" ", "\t", "\n"}

\* strings.ToLower, one character
ToLowerChar(c) ==
  IF c \in Range(UpperCase)
  THEN LowerCase[CHOOSE i \in DOMAIN UpperCase : UpperCase[i] = c]
  ELSE c

\* the %d verb of fmt.Sprintf for i >= 0
RECURSIVE Itoa(_)
Itoa(i) == IF i < 10 THEN <<DigitChars[i + 1]>>
           ELSE Itoa(i \div 10) \o <<DigitChars[(i % 10) + 1]>>

\* strings.Contains(s, "--")
HasDoubleHyphen(s) == \E i \in 1 .. Len(s) - 1 : s[i] = "-" /\ s[i + 1] = "-"

\* strings.ReplaceAll(s, "--", "-"): non-overlapping matches, left to right
RECURSIVE ReplaceDoubleHyphen(_)
ReplaceDoubleHyphen(s) ==
  IF Len(s) < 2 THEN s
  ELSE IF s[1] = "-" /\ s[2] = "-"
       THEN <<"-">> \o ReplaceDoubleHyphen(SubSeq(s, 3, Len(s)))
       ELSE <<s[1]>> \o ReplaceDoubleHyphen(Tail(s))

\* process.go 328-330
RECURSIVE CollapseHyphens(_)
CollapseHyphens(s) ==
  IF HasDoubleHyphen(s) THEN CollapseHyphens(ReplaceDoubleHyphen(s)) ELSE s

\* strings.Trim(s, cut) and strings.TrimSpace(s)
RECURSIVE TrimLeft(_, _)
TrimLeft(s, cut) ==
  IF s /= <<>> /\ s[1] \in cut THEN TrimLeft(Tail(s), cut) ELSE s
RECURSIVE TrimRight(_, _)
TrimRight(s, cut) ==
  IF s /= <<>> /\ s[Len(s)] \in cut THEN TrimRight(SubSeq(s, 1, Len(s) - 1), cut) ELSE s
Trim(s, cut) == TrimRight(TrimLeft(s, cut), cut)
TrimSpace(s) == Trim(s, {" ", "\t", "\n"})

\* strings.HasPrefix
HasPrefix(s, pre) == Len(s) >= Len(pre) /\ SubSeq(s, 1, Len(pre)) = pre

\* process.go 319-327: the mapping function of strings.Map; <<>> drops the rune
SlugRune(r) ==
  IF IsLetter(r) \/ IsDigit(r) THEN <<r>>
  ELSE IF IsSpace(r) \/ r = "-" \/ r = "_" THEN <<"-">>
  ELSE <<>>

RECURSIVE MapRunes(_)
MapRunes(s) == IF s = <<>> THEN <<>> ELSE SlugRune(s[1]) \o MapRunes(Tail(s))

\* slugify (process.go 317-332)
slugify(s) ==
  Trim(CollapseHyphens(MapRunes([i \in DOMAIN s |-> ToLowerChar(s[i])])), {"-"})

(***************************************************************************)
(* SpecSlug: slugify on heading texts of bounded length.                   *)
(***************************************************************************)
\* characters in one heading text
MaxText == 4

\* the characters texts are made of: letters of both cases, a digit, the
\* three kinds of separators, a dropped character, letters outside ASCII
TextChars == {"A", "b", "1", " ", "-", "_", "!", CaselessLetter, UnpairedUpper}
Texts == UNION {[1 .. k -> TextChars] : k \in 0 .. MaxText}

SlugInit == \E s \in Texts : slugRun = [text |-> s, id |-> <<>>, done |-> FALSE]

\* one call slugify(text)
Slugify ==
  /\ ~slugRun.done
  /\ slugRun' = [slugRun EXCEPT !.id = slugify(slugRun.text), !.done = TRUE]
  /\ UNCHANGED <<loopVars, regVars, docVars, tocVars>>

SlugNext == Slugify

(***************************************************************************)
(* processState.uniqueID (process.go 380-392)                              *)
(***************************************************************************)
\* process.go 385-391: the loop from i
RECURSIVE probe(_, _, _)
probe(ids, id, i) ==
  LET candidate == id \o <<"-">> \o Itoa(i) IN
    IF candidate \notin ids THEN candidate ELSE probe(ids, id, i + 1)

\* the id returned by uniqueID; the caller's map becomes ids \cup {result}
uniqueIDNoLoop(ids, id) == IF id \notin ids THEN id ELSE id \o <<"-", "1">>
uniqueID(ids, id) == IF id \notin ids THEN id ELSE probe(ids, id, 1)


(***************************************************************************)
(* SpecReg: one registry, reserved from repeatedly.                        *)
(***************************************************************************)
\* calls of uniqueID on one registry
MaxCalls == 4

Intro == <<"i", "n", "t", "r", "o">>
\* the candidates requested: a plain id, ids that look suffixed, the empty id
RegCands == {Intro, Intro \o <<"-", "1">>, Intro \o <<"-", "1", "-", "1">>, <<>>}

RegInit == reg = {} /\ regLog = <<>>

\* one call s.uniqueID(id)
Reserve(id) ==
  /\ Len(regLog) < MaxCalls
  /\ LET r == uniqueID(reg, id) IN
       /\ reg' = reg \cup {r}
       /\ regLog' = Append(regLog, <<id, r>>)
  /\ UNCHANGED <<loopVars, docVars, tocVars, slugVars>>

RegNext == \E id \in RegCands : Reserve(id)

(***************************************************************************)
(* Parsed HTML (golang.org/x/net/html Node): type, data, attr, children.   *)
(***************************************************************************)
Text(t) == [type |-> "text", data |-> t, attr |-> <<>>, children |-> <<>>]
Element(tag, attr, children) ==
  [type |-> "element", data |-> tag, attr |-> attr, children |-> children]
Comment(t) == [type |-> "comment", data |-> t, attr |-> <<>>, children |-> <<>>]
Attr(key, val) == [key |-> key, val |-> val]

\* process.go 334-343
RECURSIVE textContent(_)
RECURSIVE textOfChildren(_)
textContent(n) == IF n.type = "text" THEN n.data ELSE textOfChildren(n.children)
\* process.go 339-341: the loop over the children
textOfChildren(cs) ==
  IF cs = <<>> THEN <<>> ELSE textContent(cs[1]) \o textOfChildren(Tail(cs))

\* process.go 345-352
hasAttr(n, key) == \E i \in DOMAIN n.attr : n.attr[i].key = key

AttrIndex(n, key) ==
  CHOOSE i \in DOMAIN n.attr :
    n.attr[i].key = key /\ \A j \in 1 .. i - 1 : n.attr[j].key /= key

\* process.go 364-371
getAttr(n, key) == IF hasAttr(n, key) THEN n.attr[AttrIndex(n, key)].val ELSE <<>>

\* append(n.Attr, html.Attribute{...})
addAttr(n, key, val) == [n EXCEPT !.attr = Append(@, Attr(key, val))]

\* process.go 354-362
setAttr(n, key, val) ==
  IF hasAttr(n, key) THEN [n EXCEPT !.attr[AttrIndex(n, key)].val = val]
  ELSE addAttr(n, key, val)

\* process.go 397: the tag is h1 .. h6
IsHeading(n) ==
  /\ Len(n.data) = 2
  /\ n.data[1] = "h"
  /\ n.data[2] \in {"1", "2", "3", "4", "5", "6"}

\* process.go 399: int(n.Data[1] - '0')
HeadingLevel(n) == (CHOOSE i \in DOMAIN DigitChars : DigitChars[i] = n.data[2]) - 1

(***************************************************************************)
(* processState (process.go 373-378) and the lines written by warn.        *)
(***************************************************************************)
StaleProcessState == IF pass = <<>> THEN [headings |-> <<>>, ids |-> {}, links |-> <<>>,
                                          warns |-> <<>>]
                     ELSE [pass.s EXCEPT !.warns = <<>>]
\* process.go 622: &processState{dir: dir, ids: make(map[string]bool)}
NewProcessState == [headings |-> <<>>, ids |-> {}, links |-> <<>>, warns |-> <<>>]

Heading(level, id, text) == [Level |-> level, ID |-> id, Text |-> text]

\* s.uniqueID(id) with its effect on s.ids
reserve(s, id) ==
  LET r == uniqueID(s.ids, id) IN [id |-> r, s |-> [s EXCEPT !.ids = @ \cup {r}]]

\* process.go 396-412: auto-id of headings
ProcessHeadingAlways(n, s) ==
  IF ~IsHeading(n) THEN [n |-> n, s |-> s]
  ELSE LET text == textContent(n)
           r == reserve(s, IF hasAttr(n, "id") THEN getAttr(n, "id") ELSE slugify(text))
       IN [n |-> setAttr(n, "id", r.id),
           s |-> [r.s EXCEPT !.headings =
                    Append(@, Heading(HeadingLevel(n), r.id, TrimSpace(text)))]]
ProcessHeading(n, s) ==
  IF ~IsHeading(n) THEN [n |-> n, s |-> s]
  ELSE LET text == textContent(n)
           level == HeadingLevel(n)
       IN IF ~hasAttr(n, "id")
          THEN LET slug == slugify(text) IN
                 IF slug /= <<>>
                 THEN LET r == reserve(s, slug) IN
                        [n |-> addAttr(n, "id", r.id),
                         s |-> [r.s EXCEPT !.headings =
                                  Append(@, Heading(level, r.id, TrimSpace(text)))]]
                 ELSE [n |-> n, s |-> s]
          ELSE LET r == reserve(s, getAttr(n, "id")) IN
                 [n |-> setAttr(n, "id", r.id),
                  s |-> [r.s EXCEPT !.headings =
                           Append(@, Heading(level, r.id, TrimSpace(text)))]]

\* process.go 414-420: ids of the other elements
ProcessIDSkip(n, s) == [n |-> n, s |-> s]
ProcessID(n, s) ==
  IF ~IsHeading(n) /\ hasAttr(n, "id")
  THEN LET r == reserve(s, getAttr(n, "id")) IN [n |-> setAttr(n, "id", r.id), s |-> r.s]
  ELSE [n |-> n, s |-> s]

Http == <<"h", "t", "t", "p", ":", "/", "/">>
Https == <<"h", "t", "t", "p", "s", ":", "/", "/">>
warn(s, w) == [s EXCEPT !.warns = Append(@, w)]

Blank == <<"_", "b", "l", "a", "n", "k">>
Noopener == <<"n", "o", "o", "p", "e", "n", "e", "r">>

\* process.go 466-487: external links, local links, links without text
ProcessAnchorOverwrite(n, s) ==
  [n |-> IF n.data = <<"a">> THEN setAttr(setAttr(n, "target", Blank), "rel", Noopener)
         ELSE n,
   s |-> s]
ProcessAnchor(n, s) ==
  IF n.data /= <<"a">> THEN [n |-> n, s |-> s]
  ELSE LET href == getAttr(n, "href")
           r == IF HasPrefix(href, Http) \/ HasPrefix(href, Https)
                THEN LET n1 == IF ~hasAttr(n, "target")
                               THEN addAttr(n, "target", Blank)
                               ELSE n
                         n2 == IF ~hasAttr(n1, "rel")
                               THEN addAttr(n1, "rel", Noopener)
                               ELSE n1
                     IN [n |-> n2, s |-> s]
                ELSE IF href = <<>>
                     THEN [n |-> n, s |-> warn(s, <<"empty href", href>>)]
                     ELSE [n |-> n, s |-> [s EXCEPT !.links = Append(@, href)]]
       IN IF TrimSpace(textContent(n)) = <<>> /\ ~hasAttr(n, "aria-label")
          THEN [n |-> r.n, s |-> warn(r.s, <<"no text and no aria-label", href>>)]
          ELSE r

\* processNode (process.go 394-493); the image and src/poster rules
\* (process.go 422-464) read files and set no id, heading or link
RECURSIVE processNode(_, _)
RECURSIVE processChildren(_, _, _)
processNode(n, s) ==
  LET own == IF n.type = "element"
             THEN LET a == ProcessHeading(n, s)
                      b == ProcessID(a.n, a.s)
                  IN ProcessAnchor(b.n, b.s)
             ELSE [n |-> n, s |-> s]
      kids == processChildren(own.n.children, <<>>, own.s)
  IN [n |-> [own.n EXCEPT !.children = kids.cs], s |-> kids.s]
\* process.go 490-492: the children, first to last
processChildren(cs, done, s) ==
  IF cs = <<>> THEN [cs |-> done, s |-> s]
  ELSE LET r == processNode(cs[1], s) IN
         processChildren(Tail(cs), Append(done, r.n), r.s)

(***************************************************************************)
(* buildTOC (process.go 495-551).  The output is the sequence of the       *)
(* pieces written: tag, the depth of its indentation, and for an item its  *)
(* link, its text and whether </li> was written on the same line.          *)
(***************************************************************************)
UlOpen(ind) == [tag |-> "<ul>", ind |-> ind]
UlClose(ind) == [tag |-> "</ul>", ind |-> ind]
LiClose(ind) == [tag |-> "</li>", ind |-> ind]
LiOpen(ind, h, closed) ==
  [tag |-> "<li>", ind |-> ind, href |-> h.ID, text |-> h.Text, closed |-> closed]

\* process.go 501-506
RECURSIVE MinLevel(_)
MinLevel(headings) ==
  IF Len(headings) = 1 THEN headings[1].Level
  ELSE Min(headings[1].Level, MinLevel(Tail(headings)))

\* process.go 517-520
openListsOnce(out, depth, level) == [out |-> Append(out, UlOpen(depth)), depth |-> level]
RECURSIVE openLists(_, _, _)
openLists(out, depth, level) ==
  IF depth < level THEN openLists(Append(out, UlOpen(depth)), depth + 1, level)
  ELSE [out |-> out, depth |-> depth]

\* process.go 523-529 and 542-548
RECURSIVE closeLists(_, _, _)
closeLists(out, depth, level) ==
  IF depth > level
  THEN closeLists(out \o <<UlClose(depth - 1), LiClose(depth - 2)>>, depth - 1, level)
  ELSE [out |-> out, depth |-> depth]

\* process.go 510-540: the iterations from heading i on
RECURSIVE tocLoop(_, _, _, _, _)
tocLoop(headings, minLevel, i, out, depth) ==
  IF i > Len(headings) THEN [out |-> out, depth |-> depth]
  ELSE LET h == headings[i]
           level == h.Level - minLevel + 1
           st == IF i = 1 THEN [out |-> Append(out, UlOpen(0)), depth |-> depth + 1]
                 ELSE IF level > depth THEN openLists(out, depth, level)
                 ELSE IF level < depth THEN closeLists(out, depth, level)
                 ELSE [out |-> out, depth |-> depth]
           hasChildren == i + 1 <= Len(headings)
                          /\ headings[i + 1].Level - minLevel + 1 > level
       IN tocLoop(headings, minLevel, i + 1,
                  Append(st.out, LiOpen(st.depth, h, ~hasChildren)), st.depth)

\* process.go 499-550: the pieces written for a non-empty sequence, and the
\* value of depth when the last </ul> is written
tocRun(headings) ==
  LET body == tocLoop(headings, MinLevel(headings), 1, <<>>, 0)
      tail == closeLists(body.out, body.depth, 1)
  IN [out |-> Append(tail.out, UlClose(0)), depth |-> tail.depth]

buildTOC(headings) ==
  IF Len(headings) = 0 THEN <<>> ELSE tocRun(headings).out


(***************************************************************************)
(* processContent (process.go 553-653) on a parsed fragment.  The macro    *)
(* expansion and the parser run before the tree walk; a document is given  *)
(* as the nodes html.ParseFragment returns, hasTOC telling whether the     *)
(* content held a <toc/> that became the placeholder comment.              *)
(***************************************************************************)
\* process.go 606
TocPlaceholder == <<"T", "O", "C", "_", "P", "L", "A", "C", "E", "H", "O", "L", "D", "E", "R">>

\* process.go 606: the placeholder as it stands in the text
PlaceholderToken == <<"<", "!", "-", "-">> \o TocPlaceholder \o <<"-", "-", ">">>

\* strings.Contains
Contains(s, sub) ==
  \E i \in 0 .. Len(s) - Len(sub) : SubSeq(s, i + 1, i + Len(sub)) = sub

\* html.Render of text and of attribute values (process.go 644): the
\* characters & < > " are written as entities
EscapeChar(c) ==
  IF c = "&" THEN <<"&", "a", "m", "p", ";">>
  ELSE IF c = "<" THEN <<"&", "l", "t", ";">>
  ELSE IF c = ">" THEN <<"&", "g", "t", ";">>
  ELSE IF c = "\"" THEN <<"&", "#", "3", "4", ";">>
  ELSE <<c>>
RECURSIVE EscapeString(_)
EscapeString(s) == IF s = <<>> THEN <<>> ELSE EscapeChar(s[1]) \o EscapeString(Tail(s))

\* the files of the site directory that local links can point to
SiteFiles == {<<"a", ".", "p", "d", "f">>}

Mailto == <<"m", "a", "i", "l", "t", "o", ":">>
Tel == <<"t", "e", "l", ":">>

\* process.go 623-625
RECURSIVE processNodesBackward(_, _, _)
processNodesBackward(nodes, done, s) ==
  IF nodes = <<>> THEN [nodes |-> done, s |-> s]
  ELSE LET r == processNode(nodes[Len(nodes)], s) IN
         processNodesBackward(SubSeq(nodes, 1, Len(nodes) - 1), <<r.n>> \o done, r.s)
RECURSIVE processNodes(_, _, _)
processNodes(nodes, done, s) ==
  IF nodes = <<>> THEN [nodes |-> done, s |-> s]
  ELSE LET r == processNode(nodes[1], s) IN
         processNodes(Tail(nodes), Append(done, r.n), r.s)

\* process.go 627-640: warnings for local links
validateLinksNone(links, s) == s
RECURSIVE validateLinks(_, _)
validateLinks(links, s) ==
  IF links = <<>> THEN s
  ELSE LET link == links[1]
           s1 == IF HasPrefix(link, <<"#">>)
                 THEN IF Tail(link) \notin s.ids
                      THEN warn(s, <<"missing id", link>>) ELSE s
                 ELSE IF ~HasPrefix(link, <<"h", "t", "t", "p">>)
                         /\ ~HasPrefix(link, Mailto) /\ ~HasPrefix(link, Tel)
                         /\ link \notin SiteFiles
                      THEN warn(s, <<"missing file", link>>) ELSE s
       IN validateLinks(Tail(links), s1)

\* process.go 642-650: the rendered fragment, every placeholder replaced by
\* the table of contents when the content asked for one
RECURSIVE substTOC(_, _)
substTOC(n, tocOut) ==
  IF n.type = "comment" /\ n.data = TocPlaceholder
  THEN [type |-> "toc", data |-> tocOut, attr |-> <<>>, children |-> <<>>]
  ELSE [n EXCEPT !.children = [i \in DOMAIN n.children |-> substTOC(n.children[i], tocOut)]]

render(d, nodes, s) ==
  IF d.hasTOC
  THEN LET tocOut == buildTOC(s.headings)
       IN [i \in DOMAIN nodes |-> substTOC(nodes[i], tocOut)]
  ELSE nodes

\* process.go 553-653: walk the nodes with a fresh processState, validate
\* the collected links, render
processContent(d) ==
  \E walked \in {processNodes(d.nodes, <<>>, NewProcessState)} :
    \E s \in {validateLinks(walked.s.links, walked.s)} :
      \E result \in {render(d, walked.nodes, s)} :
        /\ pass' = [nodes |-> walked.nodes, s |-> s, result |-> result]
        /\ passes' = Append(passes, [doc |-> d, out |-> result, ids |-> s.ids])

(***************************************************************************)
(* SpecDoc: documents of bounded size, processed rebuild after rebuild.    *)
(***************************************************************************)
\* top-level nodes of a document
MaxNodes == 3
\* passes of processContent in one run
MaxPasses == 3

StrA == <<"a">>
StrA1 == <<"a", "-", "1">>
IdAttr(v) == <<Attr("id", v)>>
H(level, attr, text) == Element(<<"h", DigitChars[level + 1]>>, attr, <<Text(text)>>)

\* the elements documents are made of: headings with derived ids (one of
\* them empty, one from a text that spells the placeholder), headings and
\* other elements with author ids (plain and
\* looking suffixed, one on a heading with no text), a nested heading, a local link, external links (bare,
\* with the author's rel and id, with the author's target), the placeholder
Elems ==
  { H(1, <<>>, <<"A">>),
    H(2, <<>>, <<"a", " ", "1">>),
    H(2, <<>>, <<"!">>),
    H(2, <<>>, PlaceholderToken),
    H(1, IdAttr(StrA), <<"A">>),
    H(2, IdAttr(StrA), <<>>),
    H(3, IdAttr(StrA1), <<"B">>),
    Element(<<"p">>, IdAttr(StrA), <<>>),
    Element(<<"p">>, IdAttr(StrA1), <<>>),
    Element(<<"d", "i", "v">>, <<>>, <<H(2, <<>>, <<"A">>)>>),
    Element(<<"a">>, <<Attr("href", <<"#", "a">>)>>, <<Text(<<"x">>)>>),
    Element(<<"a">>, <<Attr("href", Https \o <<"e">>)>>, <<Text(<<"x">>)>>),
    Element(<<"a">>, <<Attr("rel", <<"m", "e">>), Attr("href", Http \o <<"e">>),
                       Attr("id", StrA)>>, <<Text(<<"x">>)>>),
    Element(<<"a">>, <<Attr("href", Https \o <<"e">>), Attr("target", <<"_", "t", "o", "p">>)>>,
            <<Text(<<"x">>)>>),
    Comment(TocPlaceholder) }

NodeSeqs == UNION {[1 .. k -> Elems] : k \in 1 .. MaxNodes}

IsPlaceholder(n) == n.type = "comment" /\ n.data = TocPlaceholder
Docs == {[nodes |-> ns, hasTOC |-> \E i \in DOMAIN ns : IsPlaceholder(ns[i])] :
           ns \in NodeSeqs}

\* what the author replaces the content with between two rebuilds
OtherDoc == [nodes |-> <<H(1, <<>>, <<"A">>), H(1, <<>>, <<"A">>)>>, hasTOC |-> FALSE]

DocInit == doc \in Docs /\ pass = <<>> /\ passes = <<>>

\* one rebuild: processContent over the content as it is now
ProcessContent ==
  /\ Len(passes) < MaxPasses
  /\ processContent(doc)
  /\ UNCHANGED <<doc, loopVars, regVars, tocVars, slugVars>>

\* the author edits the content, or restores what it was at first
EditDoc ==
  /\ passes /= <<>>
  /\ Len(passes) < MaxPasses
  /\ doc' \in {OtherDoc, passes[1].doc} \ {doc}
  /\ UNCHANGED <<pass, passes, loopVars, regVars, tocVars, slugVars>>

DocNext == ProcessContent \/ EditDoc

\* documents of anchors: links to an id, to a file of the site and to a
\* missing file, mail, telephone, data and protocol-relative links, an
\* external link, an anchor with an empty href; a paragraph carries the id
Href(h) == Element(<<"a">>, <<Attr("href", h)>>, <<Text(<<"x">>)>>)
DataScheme == <<"d", "a", "t", "a", ":">>
SlashSlash == <<"/", "/">>
LinkElems ==
  { Href(<<"#", "a">>),
    Href(<<"a", ".", "p", "d", "f">>),
    Href(<<"b", ".", "p", "d", "f">>),
    Href(Mailto \o <<"e">>),
    Href(Tel \o <<"1">>),
    Href(DataScheme \o <<"e">>),
    Href(SlashSlash \o <<"e">>),
    Href(Https \o <<"e">>),
    Href(<<>>),
    Element(<<"p">>, IdAttr(StrA), <<>>) }

LinkDocs == {[nodes |-> ns, hasTOC |-> FALSE] :
               ns \in UNION {[1 .. k -> LinkElems] : k \in 1 .. MaxNodes}}

LinkInit == doc \in LinkDocs /\ pass = <<>> /\ passes = <<>>

\* documents with a table of contents: headings with derived ids, with the
\* author's ids (one of them holds a double quote, <h2 id='a"b'>), a heading
\* with no candidate, another element with an id, the placeholder
QuotedId == <<"a", "\"", "b">>
TocElems ==
  { H(1, <<>>, <<"A">>),
    H(2, <<>>, <<"!">>),
    H(2, IdAttr(StrA), <<"B">>),
    H(2, IdAttr(QuotedId), <<"C">>),
    Element(<<"p">>, IdAttr(StrA), <<>>),
    Comment(TocPlaceholder) }

TocDocs == {[nodes |-> ns, hasTOC |-> \E i \in DOMAIN ns : IsPlaceholder(ns[i])] :
              ns \in UNION {[1 .. k -> TocElems] : k \in 1 .. MaxNodes}}

TocDocInit == doc \in TocDocs /\ pass = <<>> /\ passes = <<>>

(***************************************************************************)
(* SpecTOC: buildTOC on heading sequences of bounded length.               *)
(***************************************************************************)
\* headings in one sequence
MaxHeadings == 4
\* process.go 397: heading levels are 1 .. 6
MaxLevel == 6

TocInputs ==
  UNION {[1 .. k -> 1 .. MaxLevel] : k \in 1 .. MaxHeadings}

TocInit ==
  \E ls \in TocInputs :
    toc = [headings |-> [i \in DOMAIN ls |-> Heading(ls[i], <<"h">> \o Itoa(i), <<"T">>)],
           out |-> <<>>, depth |-> 0, done |-> FALSE]

BuildTOC ==
  /\ ~toc.done
  /\ \E r \in {tocRun(toc.headings)} :
       toc' = [toc EXCEPT !.out = buildTOC(toc.headings), !.depth = r.depth,
                          !.done = TRUE]
  /\ UNCHANGED <<loopVars, regVars, docVars, slugVars>>

TocNext == BuildTOC

(***************************************************************************)
(* The specifications.                                                     *)
(***************************************************************************)
LoopIdle ==
  /\ proc = "init" /\ disk = [yaml |-> "ok", content |-> 1, html |-> 0, md |-> FALSE]
  /\ dirs = {} /\ watched = {} /\ events = <<>> /\ timer = 0
  /\ thr = [i \in Threads |-> NoThread] /\ left = [i \in Timers |-> 0]
  /\ clients = {} /\ slot = [c \in Conns |-> 0] /\ sse = [c \in Conns |-> "new"]
  /\ changes = 0 /\ sinceEvt = DebounceMs /\ burst = 0
  /\ offered = [c \in Conns |-> 0] /\ frames = [c \in Conns |-> 0]
RegIdle == reg = {} /\ regLog = <<>>
DocIdle == doc = <<>> /\ pass = <<>> /\ passes = <<>>
TocIdle == toc = <<>>
SlugIdle == slugRun = <<>>

Init == LoopInit /\ RegIdle /\ DocIdle /\ TocIdle /\ SlugIdle
Spec == Init /\ [][LoopNext]_vars

\* a handler whose select has a ready case takes one: a cancelled handler
\* returns, however many signals arrive meanwhile
SpecLive == Spec /\ \A c \in Conns : WF_vars(SseReturn(c))

\* a handler in its loop whose channel holds a signal receives it
SpecReload == Spec /\ \A c \in Conns : WF_vars(SseReload(c))

SpecWatch == Init /\ [][WatchNext]_vars

\* the loop goroutine receives the events that are queued, time passes,
\* an expired timer runs its callback, and a callback that has started goes
\* on to the end of build and to the broadcast
SpecWatchFair ==
  /\ SpecWatch
  /\ WF_vars(HandleEvent)
  /\ WF_vars(Tick)
  /\ \A i \in Timers :
       WF_vars(TimerFire(i)) /\ WF_vars(Rebuild(i)) /\ WF_vars(notifyClients(i))

InitReg == LoopIdle /\ RegInit /\ DocIdle /\ TocIdle /\ SlugIdle
SpecReg == InitReg /\ [][RegNext]_vars

InitDoc == LoopIdle /\ RegIdle /\ DocInit /\ TocIdle /\ SlugIdle
SpecDoc == InitDoc /\ [][DocNext]_vars

InitLinks == LoopIdle /\ RegIdle /\ LinkInit /\ TocIdle /\ SlugIdle
SpecLinks == InitLinks /\ [][DocNext]_vars

InitTocDoc == LoopIdle /\ RegIdle /\ TocDocInit /\ TocIdle /\ SlugIdle
SpecTocDoc == InitTocDoc /\ [][DocNext]_vars

InitTOC == LoopIdle /\ RegIdle /\ DocIdle /\ TocInit /\ SlugIdle
SpecTOC == InitTOC /\ [][TocNext]_vars

InitSlug == LoopIdle /\ RegIdle /\ DocIdle /\ TocIdle /\ SlugInit
SpecSlug == InitSlug /\ [][SlugNext]_vars

(***************************************************************************)
(* Properties of the serve loop.                                           *)
(***************************************************************************)
Building(i) == thr[i].pc \in BuildPcs
Armed(i) == thr[i].pc = "armed"
Started(i) == thr[i].pc \in BuildPcs \cup {"notify", "done"}
Idle == \A i \in Timers : ~Armed(i) /\ thr[i].pc \in {"none", "stopped", "done"}
\* the step is an iteration of the loop on an event that is not suppressed
LoopTakesChange ==
  /\ events /= <<>>
  /\ events' = Tail(events)
  /\ Head(events).name \notin {<<"index.html">>, <<"index.md">>}
\* the step is an iteration of the loop on an event of a generated file
LoopTakesOutput ==
  /\ events /= <<>>
  /\ events' = Tail(events)
  /\ Head(events).name \in {<<"index.html">>, <<"index.md">>}

\* C1: in the serve loop at most one execution of build is in progress at
\* every moment: a rebuild never starts while an earlier one is running.
C1_AtMostOneRebuild == Cardinality({i \in Timers : Building(i)}) <= 1

\* C2: a burst of non-suppressed events, each less than the debounce delay
\* after the previous one, results in exactly one rebuild and one broadcast,
\* performed after the last event of the burst: at every moment the rebuilds
\* started plus the timer still pending equal the number of bursts, a timer
\* fires only a full delay after the newest event, and once the loop is idle
\* there has been one broadcast per burst.
C2_Debounce ==
  /\ [](Cardinality({i \in Timers : Started(i)})
          + Cardinality({i \in Timers : Armed(i)}) = burst)
  /\ [](Idle => Cardinality({i \in Timers : thr[i].pc = "done"}) = burst)
  /\ [][\A i \in Timers : Armed(i) /\ Started(i)'
          => timer = i /\ sinceEvt = DebounceMs]_vars

\* C2 witness: three events in one window, one rebuild, one broadcast
C2_Witness ==
  /\ burst = 1 /\ timer = 3
  /\ thr[1].pc = "stopped" /\ thr[2].pc = "stopped" /\ thr[3].pc = "done"

\* C3: whenever a rebuild returns an error, index.html is at that moment what
\* it was on disk before the rebuild was started (and the broadcast follows).
C3_FailedRebuildKeepsOutput ==
  [][\A i \in Timers :
       (Building(i) /\ thr'[i].pc = "notify" /\ thr'[i].err = "err")
         => disk'.html = thr[i].html0]_vars

\* C4 as stated: no build invoked by run, the initial one included, ends the
\* process with its error.
C4_NoBuildErrorIsFatal ==
  (\E i \in Threads : thr[i].err = "err") => proc /= "exited"

\* C4 amended: an error of a rebuild started by the debounce timer is never
\* fatal: the process keeps serving, and the loop still arms the timer on the
\* next filesystem event it receives.
C4_RebuildErrorNotFatal ==
  /\ []((\E i \in Timers : thr[i].err = "err") => proc = "serving")
  /\ [][((\E i \in Timers : thr[i].err = "err") /\ LoopTakesChange)
          => timer' = timer + 1 /\ thr'[timer'].pc = "armed"]_vars

\* C4 witness: a rebuild failed, and a later event has started another rebuild
C4_Witness ==
  \E i, j \in Timers :
    /\ i < j
    /\ thr[i].pc = "done" /\ thr[i].err = "err"
    /\ Building(j)

\* C5: every rebuild, failed or not, is followed by a broadcast that leaves a
\* signal in the channel of every listener registered at that moment, and
\* the broadcast of a rebuild never happens before its build has returned.
C5_BroadcastAfterRebuild ==
  /\ [](\A i \in Timers : thr[i].pc = "done" => thr[i].err /= "none")
  /\ [][\A i \in Timers : Building(i) /\ ~Building(i)'
          => thr'[i].pc = "notify" /\ thr'[i].err /= "none"]_vars
  /\ [][\A i \in Timers : thr[i].pc = "notify" /\ thr'[i].pc /= "notify"
          => thr'[i].pc = "done" /\ \A c \in clients : slot'[c] = 1]_vars

\* C5 witness: a failed rebuild has broadcast to a registered listener
C5_Witness ==
  \E i \in Timers : \E c \in clients :
    thr[i].pc = "done" /\ thr[i].err = "err" /\ slot[c] = 1

\* C6: events of index.html and index.md never arm the debounce timer, so
\* the timer is armed at most once per external change and a rebuild never
\* re-triggers itself.
C6_SelfWriteSuppressed ==
  /\ [][LoopTakesOutput => UNCHANGED <<timer, thr, left>>]_vars
  /\ [](timer <= changes)

\* C6 witness: a rebuild wrote both files, the loop has received their
\* events, and the loop is idle with no rebuild pending
C6_Witness ==
  /\ Idle /\ events = <<>> /\ changes = 1 /\ timer = 1
  /\ thr[1].pc = "done" /\ thr[1].err = "nil" /\ disk.md /\ disk.html = disk.content

(***************************************************************************)
(* Properties of the tree walk and of the identifier registry.             *)
(***************************************************************************)
\* the id attributes of a tree and of a node sequence, in document order
RECURSIVE idsOfNode(_)
RECURSIVE idsOfNodes(_)
idsOfNode(n) ==
  (IF hasAttr(n, "id") THEN <<getAttr(n, "id")>> ELSE <<>>) \o idsOfNodes(n.children)
idsOfNodes(ns) ==
  IF ns = <<>> THEN <<>> ELSE idsOfNode(ns[1]) \o idsOfNodes(Tail(ns))

Distinct(seq) == \A i, j \in DOMAIN seq : i /= j => seq[i] /= seq[j]

Suffixed(c, n) == c \o <<"-">> \o <<DigitChars[n + 1]>>

\* C8: a call of uniqueID returns the candidate itself when it is unused and
\* otherwise candidate-N for the smallest N >= 1 that is unused; the returned
\* id was unused and is the one entry added to the used-set.  Three requests
\* of "intro" on an empty registry return intro, intro-1, intro-2.
C8_Reserve ==
  /\ [][Len(regLog') = Len(regLog) + 1 =>
          LET c == regLog'[Len(regLog')][1]
              r == regLog'[Len(regLog')][2]
          IN /\ r \notin reg
             /\ reg' = reg \cup {r}
             /\ c \notin reg => r = c
             /\ c \in reg =>
                  \E n \in 1 .. MaxCalls :
                    /\ r = Suffixed(c, n)
                    /\ \A m \in 1 .. n - 1 : Suffixed(c, m) \in reg]_vars
  /\ []((Len(regLog) >= 3 /\ \A k \in 1 .. 3 : regLog[k][1] = Intro)
          => /\ regLog[1][2] = Intro
             /\ regLog[2][2] = Suffixed(Intro, 1)
             /\ regLog[3][2] = Suffixed(Intro, 2))

\* C8 witness: "intro" was requested three times on the empty registry
C8_Witness ==
  /\ Len(regLog) = 3
  /\ \A k \in 1 .. 3 : regLog[k][1] = Intro
  /\ reg = {Intro, Suffixed(Intro, 1), Suffixed(Intro, 2)}

\* C9: a pass starts from an empty registry, heading list and link list:
\* the ids a pass knows are exactly the ids of its own output, and two passes
\* of one run over the same content give the same ids and the same output,
\* whatever was processed in between.
C9_NoCrossBuildMemory ==
  /\ pass /= <<>> => pass.s.ids = Range(idsOfNodes(pass.nodes))
  /\ \A i, j \in DOMAIN passes :
       passes[i].doc = passes[j].doc =>
         passes[i].out = passes[j].out /\ passes[i].ids = passes[j].ids

\* C9 witness: a content with ids was processed, then different content,
\* then the first content again
C9_Witness ==
  /\ Len(passes) = 3
  /\ passes[1].doc = passes[3].doc
  /\ passes[2].doc /= passes[1].doc
  /\ passes[1].ids /= {} /\ passes[2].ids /= {}

(***************************************************************************)
(* Well-formedness of the table of contents.                               *)
(***************************************************************************)
\* the open tags, innermost last, after the pieces from k on are read; the
\* stack <<"bad">> is reached when a closing tag does not close the innermost
\* open tag, a <ul> is opened inside a <ul>, an <li> is opened outside a
\* <ul>, or anything follows the end of the outermost list
RECURSIVE scan(_, _, _)
scan(out, k, stack) ==
  IF k > Len(out) THEN stack
  ELSE LET p == out[k]
           top == IF stack = <<>> THEN "none" ELSE stack[Len(stack)]
           pop == SubSeq(stack, 1, Len(stack) - 1)
       IN IF p.tag = "<ul>"
          THEN IF top = "li" \/ (top = "none" /\ k = 1)
               THEN scan(out, k + 1, Append(stack, "ul")) ELSE <<"bad">>
          ELSE IF p.tag = "<li>"
          THEN IF top = "ul"
               THEN scan(out, k + 1, IF p.closed THEN stack ELSE Append(stack, "li"))
               ELSE <<"bad">>
          ELSE IF p.tag = "</li>"
          THEN IF top = "li" THEN scan(out, k + 1, pop) ELSE <<"bad">>
          ELSE IF top = "ul" THEN scan(out, k + 1, pop) ELSE <<"bad">>

LiOpenings(out) == Cardinality({k \in DOMAIN out : out[k].tag = "<li>"})
LiClosings(out) ==
  Cardinality({k \in DOMAIN out : out[k].tag = "</li>"})
    + Cardinality({k \in DOMAIN out : out[k].tag = "<li>" /\ out[k].closed})

WellFormed(out) == scan(out, 1, <<>>) = <<>> /\ LiOpenings(out) = LiClosings(out)

\* C10: for every non-empty heading sequence the output of buildTOC is one
\* well-formed nested list: closing tags close the innermost open tag of
\* their kind, a nested <ul> is inside an open <li>, and there are as many
\* </li> as <li>.
C10_TOCWellFormed == toc.done => WellFormed(toc.out)

UlOpenings(out) == Cardinality({k \in DOMAIN out : out[k].tag = "<ul>"})
UlClosings(out) == Cardinality({k \in DOMAIN out : out[k].tag = "</ul>"})

\* C11: for every non-empty heading sequence buildTOC writes as many </ul>
\* as <ul>, the last piece written is the outer </ul>, and depth is exactly 1
\* when it is written.
C11_ListsBalanced ==
  toc.done =>
    /\ UlOpenings(toc.out) = UlClosings(toc.out)
    /\ toc.out[Len(toc.out)] = UlClose(0)
    /\ toc.depth = 1

\* C11 witness: levels 1, 3, 2: two lists opened at once for the skipped
\* level, one closed before the third heading, the others after the last
C11_Witness ==
  /\ toc.done
  /\ [i \in DOMAIN toc.headings |-> toc.headings[i].Level] = <<1, 3, 2>>
  /\ UlOpenings(toc.out) = 3
  /\ toc.depth = 1

(***************************************************************************)
(* Placement of the items, as an HTML parser reads the pieces: the stack   *)
(* holds 0 for an open <ul> and k for the open item of heading k; a </li>  *)
(* with no open item above the innermost open list is ignored.             *)
(***************************************************************************)
OpenItem(stack) ==
  IF \E j \in DOMAIN stack : stack[j] /= 0
  THEN stack[CHOOSE j \in DOMAIN stack :
               stack[j] /= 0 /\ \A l \in j + 1 .. Len(stack) : stack[l] = 0]
  ELSE 0
OpenLists(stack) == Cardinality({j \in DOMAIN stack : stack[j] = 0})
Top(stack) == IF stack = <<>> THEN -1 ELSE stack[Len(stack)]
Pop(stack) == SubSeq(stack, 1, Len(stack) - 1)

\* for each item, in the order written: the heading whose item encloses it
\* (0 for none) and the number of lists open around it
RECURSIVE place(_, _, _, _, _)
place(out, i, stack, k, acc) ==
  IF i > Len(out) THEN acc
  ELSE LET p == out[i] IN
    IF p.tag = "<ul>" THEN place(out, i + 1, Append(stack, 0), k, acc)
    ELSE IF p.tag = "<li>"
    THEN LET st == IF Top(stack) > 0 THEN Pop(stack) ELSE stack
             rec == [parent |-> OpenItem(st), lists |-> OpenLists(st)]
         IN place(out, i + 1, IF p.closed THEN st ELSE Append(st, k), k + 1,
                  Append(acc, rec))
    ELSE IF p.tag = "</li>"
    THEN place(out, i + 1, IF Top(stack) > 0 THEN Pop(stack) ELSE stack, k, acc)
    ELSE place(out, i + 1,
               IF Top(stack) = 0 THEN Pop(stack)
               ELSE IF Top(stack) > 0 /\ OpenLists(stack) > 0 THEN Pop(Pop(stack))
               ELSE stack,
               k, acc)

\* the nearest heading before k with a smaller level, 0 when there is none
NearestSmaller(hs, k) ==
  LET smaller == {j \in 1 .. k - 1 : hs[j].Level < hs[k].Level}
  IN IF smaller = {} THEN 0 ELSE CHOOSE j \in smaller : \A l \in smaller : l <= j

Levels(hs) == [i \in DOMAIN hs |-> hs[i].Level]

\* C12: every heading has one item; the item lies inside the item of the
\* nearest preceding heading with a smaller level and inside no item when
\* there is no such heading; the items of the headings of minimum level lie
\* directly in the outer list.  Levels 2, 3, 3, 2 give the outer list with
\* two items, the first holding one nested list with two items.
C12_MirrorsHierarchy ==
  toc.done =>
    LET hs == toc.headings
        pl == place(toc.out, 1, <<>>, 1, <<>>)
    IN /\ Len(pl) = Len(hs)
       /\ \A k \in DOMAIN hs :
            /\ pl[k].parent = NearestSmaller(hs, k)
            /\ pl[k].parent /= 0 => pl[k].lists >= 2
            /\ hs[k].Level = MinLevel(hs) => pl[k].lists = 1
       /\ Levels(hs) = <<2, 3, 3, 2>> =>
            toc.out = <<UlOpen(0), LiOpen(1, hs[1], FALSE), UlOpen(1),
                        LiOpen(2, hs[2], TRUE), LiOpen(2, hs[3], TRUE),
                        UlClose(1), LiClose(0), LiOpen(1, hs[4], TRUE), UlClose(0)>>

\* C12, the part that holds: a heading that has a preceding heading with a
\* smaller level lies inside the item of the nearest one, and the headings
\* of minimum level lie directly in the outer list.
C12_CoveredPlacement ==
  toc.done =>
    LET hs == toc.headings
        pl == place(toc.out, 1, <<>>, 1, <<>>)
    IN /\ Len(pl) = Len(hs)
       /\ \A k \in DOMAIN hs :
            /\ NearestSmaller(hs, k) /= 0 => pl[k].parent = NearestSmaller(hs, k)
            /\ hs[k].Level = MinLevel(hs) => pl[k].lists = 1 /\ pl[k].parent = 0

(***************************************************************************)
(* Properties of the final output of processContent.                       *)
(***************************************************************************)
\* the serialized output holds the placeholder: as a comment left in place,
\* in a text or an attribute value as html.Render writes them, or in the
\* link or the text of an item of the table of contents, written as they are
RECURSIVE HasPlaceholder(_)
HasPlaceholder(ns) ==
  \E i \in DOMAIN ns :
    LET n == ns[i] IN
      \/ n.type = "comment" /\ Contains(<<"<", "!", "-", "-">> \o n.data \o <<"-", "-", ">">>,
                                        PlaceholderToken)
      \/ n.type = "text" /\ Contains(EscapeString(n.data), PlaceholderToken)
      \/ \E a \in DOMAIN n.attr : Contains(EscapeString(n.attr[a].val), PlaceholderToken)
      \/ n.type = "toc" /\ \E k \in DOMAIN n.data :
           /\ n.data[k].tag = "<li>"
           /\ \/ Contains(n.data[k].text, PlaceholderToken)
              \/ Contains(n.data[k].href, PlaceholderToken)
      \/ HasPlaceholder(n.children)

\* C13: when the content asked for a table of contents, the final output of
\* the pass holds no placeholder; and buildTOC of no headings is empty.
C13_NoPlaceholderLeft ==
  /\ buildTOC(<<>>) = <<>>
  /\ \A i \in DOMAIN passes :
       passes[i].doc.hasTOC => ~HasPlaceholder(passes[i].out)

(***************************************************************************)
(* Properties of slugify.                                                  *)
(***************************************************************************)
\* only lower case letters, digits and hyphens, the hyphens single and
\* neither first nor last
SlugShape(id) ==
  /\ \A i \in DOMAIN id : id[i] \in Range(LowerCase) \cup Range(DigitChars) \cup {"-"}
  /\ ~HasDoubleHyphen(id)
  /\ id /= <<>> => id[1] /= "-" /\ id[Len(id)] /= "-"

\* C14: for every heading text the id slugify derives has only lower case
\* letters, digits and single hyphens and no hyphen first or last.
C14_SlugShape == slugRun.done => SlugShape(slugRun.id)

\* C14, the part that holds: on texts whose letters are ASCII the id has
\* that shape; on every text it has single hyphens, none first or last, and
\* no character other than a letter, a digit or a hyphen.
C14_SlugShapeASCII ==
  slugRun.done =>
    /\ (\A i \in DOMAIN slugRun.text : IsLetter(slugRun.text[i]) => IsLetterASCII(slugRun.text[i]))
         => SlugShape(slugRun.id)
    /\ \A i \in DOMAIN slugRun.id :
         IsLetter(slugRun.id[i]) \/ IsDigit(slugRun.id[i]) \/ slugRun.id[i] = "-"
    /\ ~HasDoubleHyphen(slugRun.id)
    /\ slugRun.id /= <<>> => slugRun.id[1] /= "-" /\ slugRun.id[Len(slugRun.id)] /= "-"

(***************************************************************************)
(* Properties of the link rules.                                           *)
(***************************************************************************)
\* the elements of a fragment paired with what the pass made of them
RECURSIVE Pairs(_, _)
Pairs(ins, outs) ==
  UNION {{<<ins[i], outs[i]>>} \cup Pairs(ins[i].children, outs[i].children) :
           i \in DOMAIN ins}

External(n) == HasPrefix(getAttr(n, "href"), Http) \/ HasPrefix(getAttr(n, "href"), Https)
Anchors(p) == {pr \in Pairs(p.doc.nodes, p.out) : pr[1].type = "element" /\ pr[1].data = <<"a">>}

\* what the rule for external links does to the target and rel of an anchor
LinkAttrs(in, out) ==
  IF External(in)
  THEN /\ hasAttr(out, "target") /\ hasAttr(out, "rel")
       /\ getAttr(out, "target") = IF hasAttr(in, "target") THEN getAttr(in, "target") ELSE Blank
       /\ getAttr(out, "rel") = IF hasAttr(in, "rel") THEN getAttr(in, "rel") ELSE Noopener
       /\ Len(out.attr) = Len(in.attr) + (IF hasAttr(in, "target") THEN 0 ELSE 1)
                                       + (IF hasAttr(in, "rel") THEN 0 ELSE 1)
  ELSE /\ hasAttr(out, "target") = hasAttr(in, "target")
       /\ hasAttr(out, "rel") = hasAttr(in, "rel")
       /\ Len(out.attr) = Len(in.attr)

\* C15 as stated: an external link has target and rel after the walk, the
\* author's values kept and the missing ones added as _blank and noopener,
\* every attribute the author wrote is unchanged, and the anchors with
\* another href gain neither attribute.
C15_ExternalLinkAttrs ==
  \A i \in DOMAIN passes : \A pr \in Anchors(passes[i]) :
    /\ LinkAttrs(pr[1], pr[2])
    /\ \A k \in DOMAIN pr[1].attr : pr[2].attr[k] = pr[1].attr[k]

\* C15 amended: the same, except that the id of an anchor is what the
\* registry returned for it, so a duplicate id is renamed.
C15_ExternalLinkAttrsButId ==
  \A i \in DOMAIN passes : \A pr \in Anchors(passes[i]) :
    /\ LinkAttrs(pr[1], pr[2])
    /\ \A k \in DOMAIN pr[1].attr :
         /\ pr[2].attr[k].key = pr[1].attr[k].key
         /\ pr[1].attr[k].key /= "id" => pr[2].attr[k].val = pr[1].attr[k].val

\* C15 witness: in one pass an external link with the author's rel="me" and
\* a duplicate id got target="_blank", kept its rel and had its id renamed,
\* and a local link gained nothing
C15_Witness ==
  \E i \in DOMAIN passes :
    /\ \E pr \in Anchors(passes[i]) :
         /\ External(pr[1]) /\ getAttr(pr[1], "rel") = <<"m", "e">>
         /\ getAttr(pr[2], "rel") = <<"m", "e">> /\ getAttr(pr[2], "target") = Blank
         /\ getAttr(pr[2], "id") = StrA1
    /\ \E pr \in Anchors(passes[i]) : ~External(pr[1]) /\ pr[2].attr = pr[1].attr

\* the hrefs of the anchors of a fragment that start with #, in document order
RECURSIVE fragmentLinks(_)
fragmentLinks(ns) ==
  IF ns = <<>> THEN <<>>
  ELSE LET n == ns[1]
           own == IF n.type = "element" /\ n.data = <<"a">>
                     /\ HasPrefix(getAttr(n, "href"), <<"#">>)
                     /\ TrimSpace(textContent(n)) /= <<>>
                  THEN <<getAttr(n, "href")>> ELSE <<>>
       IN own \o fragmentLinks(n.children) \o fragmentLinks(Tail(ns))

Count(seq, x) == Cardinality({k \in DOMAIN seq : seq[k] = x})
LastDoc == passes[Len(passes)].doc

\* C16: in a pass every local link #x with a text gives exactly one warning
\* when no element ends the pass with the id x, wherever the elements stand,
\* and none when one does; the warnings are all the pass has for such
\* links, and the output is what the walk alone produces.
C16_LocalLinkWarning ==
  pass /= <<>> =>
    LET links == fragmentLinks(LastDoc.nodes)
        ids == Range(idsOfNodes(pass.nodes))
        walked == processNodes(LastDoc.nodes, <<>>, NewProcessState)
    IN /\ \A k \in DOMAIN links :
            Count(pass.s.warns, <<"missing id", links[k]>>)
              = IF Tail(links[k]) \in ids THEN 0 ELSE Count(links, links[k])
       /\ Len(pass.s.warns) = Cardinality({k \in DOMAIN links : Tail(links[k]) \notin ids})
       /\ pass.nodes = walked.nodes
       /\ pass.result = render(LastDoc, walked.nodes, walked.s)

\* C16 witness: a link to #a stands between two elements, neither of which
\* ends the pass with the id a, and the pass has its one warning
C16_Witness ==
  /\ pass /= <<>>
  /\ Len(LastDoc.nodes) = 3
  /\ fragmentLinks(<<LastDoc.nodes[2]>>) = <<<<"#", "a">>>>
  /\ Range(idsOfNodes(pass.nodes)) = {StrA1, <<"a", "-", "1", "-", "1">>}
  /\ pass.s.warns = <<<<"missing id", <<"#", "a">>>>>>

(***************************************************************************)
(* Properties of the broadcast and of the listener set.                    *)
(***************************************************************************)
\* C17: a broadcast puts one signal in the empty slot of every registered
\* listener and leaves every other slot as it is; no channel ever holds more
\* than one signal; and a broadcast that is due can always be performed,
\* whatever position the handlers are in.
C17_BroadcastNeverBlocks ==
  /\ [](\A c \in Conns : slot[c] \in {0, 1})
  /\ [](\A i \in Timers : thr[i].pc = "notify" => ENABLED notifyClients(i))
  /\ [][\A i \in Timers :
          thr[i].pc = "notify" /\ thr'[i].pc = "done" =>
            \A c \in Conns :
              slot'[c] = IF c \in clients /\ slot[c] = 0 THEN 1 ELSE slot[c]]_vars

\* C17 witness: two broadcasts are done, a third is due, and the slot of a
\* listener whose handler is in its loop is full
C17_Witness ==
  /\ Cardinality({i \in Timers : thr[i].pc = "done"}) = 2
  /\ \E i \in Timers : thr[i].pc = "notify"
  /\ \E c \in clients : slot[c] = 1 /\ sse[c] = "loop"

Running(c) == sse[c] \in {"loop", "cancelled", "defer"}

\* C18: the listener set holds exactly the channels of the handlers that
\* are running; a handler has registered its channel once it is past its
\* start; and the channel of a handler whose connection was closed, or that
\* returns because it cannot flush, is eventually removed.
C18_ListenerSet ==
  /\ [](clients = {c \in Conns : Running(c)})
  /\ [][\A c \in Conns : sse[c] = "new" /\ sse'[c] /= "new" => c \in clients']_vars
  /\ \A c \in Conns : (sse[c] \in {"cancelled", "defer"}) ~> (c \notin clients)

\* C18 witness: a handler has returned after broadcasts were made, and the
\* listener set is empty again
C18_Witness ==
  /\ \E c \in Conns : sse[c] = "returned"
  /\ clients = {}
  /\ \E i \in Timers : thr[i].pc = "done"

(***************************************************************************)
(* Properties of the watch set.                                            *)
(***************************************************************************)
\* the step is an iteration of the loop on the event at the head of the queue
LoopTakes == events /= <<>> /\ events' = Tail(events)
InSubDir(e) == Len(e.name) = 2 /\ <<e.name[1]>> \in watched

\* C19: when the loop receives the create event of a new sub-directory it
\* adds the sub-directory to the watch set, and the event of a later change
\* of a file inside a watched sub-directory arms the timer for a rebuild.
C19_NewSubdirWatched ==
  /\ [][(LoopTakes /\ Head(events).op = "create" /\ Head(events).name[1] \in dirs)
          => Head(events).name \in watched']_vars
  /\ [][(LoopTakes /\ InSubDir(Head(events)))
          => timer' = timer + 1 /\ thr'[timer'].pc = "armed"]_vars

\* C19, the part that holds: created sub-directories are added, hidden ones
\* included, and a change of a file inside that is not named index.html or
\* index.md arms the timer.
C19_NewSubdirWatchedButOutputNames ==
  /\ [][(LoopTakes /\ Head(events).op = "create" /\ Head(events).name[1] \in dirs)
          => Head(events).name \in watched']_vars
  /\ [][(LoopTakes /\ InSubDir(Head(events)) /\ ~IsOutput(Head(events)))
          => timer' = timer + 1 /\ thr'[timer'].pc = "armed"]_vars

(***************************************************************************)
(* Properties of the heading list.                                         *)
(***************************************************************************)
\* the records of the heading elements of a fragment that ended the walk
\* with an id, in pre-order: an element before its children, the children
\* first to last
RECURSIVE headingRecs(_)
headingRecs(ns) ==
  IF ns = <<>> THEN <<>>
  ELSE LET n == ns[1]
           own == IF n.type = "element" /\ IsHeading(n) /\ hasAttr(n, "id")
                  THEN <<Heading(HeadingLevel(n), getAttr(n, "id"),
                                 TrimSpace(textContent(n)))>>
                  ELSE <<>>
       IN own \o headingRecs(n.children) \o headingRecs(Tail(ns))

\* C20: the heading list of a pass is the list of the heading elements in
\* document pre-order, one record for each heading that has an id after the
\* walk and none for the others.
C20_HeadingsInPreOrder ==
  pass /= <<>> => pass.s.headings = headingRecs(pass.nodes)

\* C20 witness: three headings were recorded, the second nested in a div
\* between two top-level ones
C20_Witness ==
  /\ pass /= <<>>
  /\ Len(pass.s.headings) = 3
  /\ Len(pass.nodes) = 3
  /\ pass.nodes[2].data = <<"d", "i", "v">>
  /\ pass.s.headings[2].ID = getAttr(pass.nodes[2].children[1], "id")
  /\ pass.s.headings[1].Level /= pass.s.headings[3].Level

(***************************************************************************)
(* Properties of the debounce timer.                                       *)
(***************************************************************************)
\* C21: the loop arms the timer only while no rebuild is running: an event
\* that arrives during a rebuild arms no timer before that rebuild is over.
C21_ArmedOnlyOutsideRebuild ==
  [][timer' /= timer => \A i \in Timers : ~Building(i)]_vars

\* rebuild j has run build to its end and has broadcast
Completed(j) == thr[j].pc = "done" /\ thr[j].err /= "none"

\* C22: every event in the queue that is not one of the generated files,
\* whether or not a rebuild is running when it arrives, is eventually
\* followed by a rebuild that its own timer or a later one started, run to
\* the end of build and to the broadcast.
C22_NoChangeLost ==
  \A k \in Timers :
    (events /= <<>> /\ ~IsOutput(Head(events)) /\ timer = k - 1)
      ~> (\E j \in k .. MaxChanges : Completed(j))

\* C22 witness: the second event was received after the first timer had
\* fired; its rebuild is complete while the first is still inside build
C22_Witness ==
  /\ Building(1)
  /\ Completed(2)
  /\ timer = 2

(***************************************************************************)
(* Properties of the reload frames.                                        *)
(***************************************************************************)
\* C23: a handler in its loop whose channel holds a signal writes a
\* reload frame unless its connection is closed; writing a frame takes the
\* one signal of the channel, so that the broadcasts made since the last
\* frame give a single frame; and a connection never has more frames than
\* broadcasts were made while its channel was registered.
C23_FramesFollowBroadcasts ==
  /\ \A c \in Conns : \A k \in 0 .. MaxChanges :
       (slot[c] = 1 /\ sse[c] = "loop" /\ frames[c] = k)
         ~> (frames[c] > k \/ sse[c] /= "loop")
  /\ [][\A c \in Conns :
          frames'[c] /= frames[c] =>
            /\ frames'[c] = frames[c] + 1
            /\ slot[c] = 1
            /\ slot'[c] = 0]_vars
  /\ [](\A c \in Conns : frames[c] <= offered[c])

\* C23 witness: two broadcasts were made before the handler received the
\* signal; it has written one frame and no signal is left
C23_Witness ==
  \E c \in Conns :
    /\ sse[c] = "loop"
    /\ offered[c] = 2
    /\ frames[c] = 1
    /\ slot[c] = 0

\* C24: at most one timer is armed at every moment; the step of the loop
\* that arms a timer leaves the previous one not armed; and a timer that was
\* stopped stays stopped, its callback never runs.
C24_OneTimerPending ==
  /\ [](Cardinality({i \in Timers : thr[i].pc = "armed"}) <= 1)
  /\ [][timer' /= timer =>
          /\ thr'[timer'].pc = "armed"
          /\ timer /= 0 => thr'[timer].pc /= "armed"]_vars
  /\ [][\A i \in Timers : thr[i].pc = "stopped" => thr'[i].pc = "stopped"]_vars

\* C24 witness: the second event stopped the first timer before it fired,
\* and the callback of the second timer has run
C24_Witness ==
  /\ thr[1].pc = "stopped"
  /\ thr[2].pc = "done"
  /\ timer = 2

(***************************************************************************)
(* Properties of the links queued for validation.                          *)
(***************************************************************************)
\* an href that is not a local link
Remote(href) ==
  \/ HasPrefix(href, Http) \/ HasPrefix(href, Https)
  \/ HasPrefix(href, Mailto) \/ HasPrefix(href, Tel)
  \/ HasPrefix(href, DataScheme) \/ HasPrefix(href, SlashSlash)

\* C25: after a pass, every href queued for validation is non-empty and
\* is no http, https, mailto, tel, data or protocol-relative link, and no
\* "missing file" or "missing id" warning names such a link.
C25_OnlyLocalLinksValidated ==
  pass /= <<>> =>
    /\ \A i \in DOMAIN pass.s.links :
         pass.s.links[i] /= <<>> /\ ~Remote(pass.s.links[i])
    /\ \A i \in DOMAIN pass.s.warns :
         pass.s.warns[i][1] \in {"missing file", "missing id"}
           => ~Remote(pass.s.warns[i][2])

(***************************************************************************)
(* Properties of the registration of headings.                             *)
(***************************************************************************)
\* the nodes of a fragment in the order of the walk
RECURSIVE flat(_)
flat(ns) ==
  IF ns = <<>> THEN <<>>
  ELSE <<ns[1]>> \o flat(ns[1].children) \o flat(Tail(ns))

IsHeadingElement(n) == n.type = "element" /\ IsHeading(n)
\* a heading with no id attribute and no derived candidate
Skipped(n) == ~hasAttr(n, "id") /\ slugify(textContent(n)) = <<>>
Candidate(n) == IF hasAttr(n, "id") THEN getAttr(n, "id") ELSE slugify(textContent(n))
\* the ids on the first k nodes of the walk
IdsUpTo(out, k) ==
  {getAttr(out[j], "id") : j \in {i \in 1 .. k : hasAttr(out[i], "id")}}

\* C26: a heading with no id attribute and an empty derived candidate is
\* left as it is, nothing is reserved and no record is added for it; every
\* other heading ends the walk with the id the registry returned for its
\* candidate (the author's id or the derived one) and has exactly one
\* record, which carries that id.
C26_HeadingRegistration ==
  pass /= <<>> =>
    LET in == flat(LastDoc.nodes)
        out == flat(pass.nodes)
    IN /\ Len(out) = Len(in)
       /\ \A k \in DOMAIN in :
            IsHeadingElement(in[k]) =>
              IF Skipped(in[k])
              THEN out[k] = in[k]
              ELSE /\ hasAttr(out[k], "id")
                   /\ getAttr(out[k], "id") = uniqueID(IdsUpTo(out, k - 1), Candidate(in[k]))
                   /\ Count(pass.s.headings,
                            Heading(HeadingLevel(in[k]), getAttr(out[k], "id"),
                                    TrimSpace(textContent(in[k])))) = 1
       /\ Len(pass.s.headings) =
            Cardinality({k \in DOMAIN in : IsHeadingElement(in[k]) /\ ~Skipped(in[k])})
       /\ pass.s.ids = IdsUpTo(out, Len(out))

\* C26 witness: a heading with an author id and no text, a heading whose
\* derived candidate collides with it, and a heading with no candidate
C26_Witness ==
  /\ pass /= <<>>
  /\ Len(pass.nodes) = 3
  /\ \E k \in 1 .. 3 : IsHeadingElement(pass.nodes[k]) /\ ~hasAttr(pass.nodes[k], "id")
  /\ Len(pass.s.headings) = 2
  /\ pass.s.headings[1].ID = StrA
  /\ pass.s.headings[1].Text = <<>>
  /\ pass.s.headings[2].ID = StrA1
  /\ pass.s.ids = {StrA, StrA1}

Wrote(j) ==
  \/ thr[j].pc = "build_md"
  \/ thr[j].pc \in {"notify", "done"} /\ thr[j].err = "nil"

\* no event is queued, no timer is armed and no callback is running
Quiet == events = <<>> /\ Idle

\* C28: once the events have stopped and every timer and rebuild has
\* finished, with no rebuild having failed, index.html is the output of a
\* build that read the content as it is now; and a rebuild never writes
\* index.html after a rebuild started later than itself has written it.
C28_LatestContentWins ==
  /\ [](Quiet /\ timer >= 1 /\ (\A i \in Timers : thr[i].pc = "done" => thr[i].err = "nil")
          => disk.html = disk.content)
  /\ [][\A i \in Timers :
          thr[i].pc = "build_html" /\ disk'.html /= disk.html =>
            \A j \in Timers : j > i => ~Wrote(j)]_vars

(***************************************************************************)
(* Properties of the links of the table of contents.                       *)
(***************************************************************************)
\* the value of an attribute written as "..." with no escaping, as a reader
\* of the document takes it: it ends at the first double quote
RECURSIVE UpToQuote(_)
UpToQuote(raw) ==
  IF raw = <<>> \/ raw[1] = "\"" THEN <<>> ELSE <<raw[1]>> \o UpToQuote(Tail(raw))

\* the ids the items of the tables of contents of a fragment link to
RECURSIVE tocLinks(_)
tocLinks(ns) ==
  IF ns = <<>> THEN <<>>
  ELSE LET n == ns[1]
           own == IF n.type = "toc"
                  THEN LET items == SelectSeq(n.data, LAMBDA x : x.tag = "<li>")
                       IN [k \in DOMAIN items |-> UpToQuote(items[k].href)]
                  ELSE <<>>
       IN own \o tocLinks(n.children) \o tocLinks(Tail(ns))

\* the ids of the heading elements of a fragment
headingIds(ns) == {headingRecs(ns)[k].ID : k \in DOMAIN headingRecs(ns)}

\* C29: in the output of a pass that has one table of contents, every
\* link of the table refers to an id that a heading element of the output
\* carries, no two items link to the same id, and the items link to the
\* resolved ids of the heading records, in their order.
C29_TOCLinksResolve ==
  pass /= <<>> /\ Cardinality({i \in DOMAIN pass.result : pass.result[i].type = "toc"}) = 1 =>
    LET links == tocLinks(pass.result) IN
      /\ \A k \in DOMAIN links : links[k] \in headingIds(pass.result)
      /\ Distinct(links)
      /\ links = [k \in DOMAIN pass.s.headings |-> pass.s.headings[k].ID]

(***************************************************************************)
(* Properties of hidden directories.                                       *)
(***************************************************************************)
\* a directory other than the root whose name starts with a dot
Hidden(path) == path /= Root /\ Base(path) \in DotNames

\* C30: no hidden directory is ever in the watch set, neither after the
\* initial walk nor after the create events the loop has received, and no
\* step of the loop arms the timer for an event of a file inside a hidden
\* directory.
C30_HiddenNeverWatched ==
  /\ [](\A path \in watched : ~Hidden(path))
  /\ [][(LoopTakes /\ Len(Head(events).name) = 2 /\ Hidden(<<Head(events).name[1]>>))
          => timer' = timer]_vars

====
